---- MODULE Spec2Model ----
(***************************************************************************)
(* Model of maze_solver.py: Board, Maze (value function by breadth-first   *)
(* propagation from the end square, greedy policy) and Maze.solvePath.     *)
(* Coordinates are pairs <<row, column>>, 0-based as in the source.        *)
(* Python dictionaries are functions whose DOMAIN is the key set.          *)
(***************************************************************************)
EXTENDS Integers, Sequences, FiniteSets, TLC

(* ---- bounds of the explored inputs ---- *)
\* boards of every shape length x width with at most MaxCells squares
MaxCells == 6
\* how far outside the board an end / start coordinate may lie
Slack == 2

\* cell markers: 0 is the invalid square, anything else is a valid square
Markers == {0, 1}

\* sys.maxint of a 32-bit CPython 2 build (maze_solver.py:99)
maxint == 2147483647

VARIABLES
  grid,      \* Board.grid : [0..length-1 -> [0..width-1 -> Markers]]
  end,       \* Maze.end
  pc,        \* position in Maze.__init__ / solvePath
  err,       \* exception raised by Maze.__init__ ("" when none)
  valueFn,   \* Maze.valueFn (dict)
  frontier,  \* deque of __genValFn__
  visited,   \* visited set of __genValFn__
  enq,       \* history: how many times each coordinate was appended to frontier
  policy,    \* Maze.policy (dict)
  start,     \* argument of the current / last solvePath call (<<>>: no call yet)
  cur,       \* solvePath: cur (<<>>: no call yet)
  result,    \* solvePath: result (list of symbols)
  ret        \* value returned by the last solvePath call

vars == <<grid, end, pc, err, valueFn, frontier, visited, enq, policy,
          start, cur, result, ret>>

(* ---- coordinate vectors (maze_solver.py:13-17) ---- *)
UP == <<-1, 0>>
DOWN == <<1, 0>>
LEFT == <<0, -1>>
RIGHT == <<0, 1>>
\* variant: RIGHT left out of the list
DIRECTIONS_NoRight == <<UP, DOWN, LEFT>>
DIRECTIONS == <<UP, DOWN, LEFT, RIGHT>>

\* Direction.PRINT_MAP
PRINT_MAP(d) ==
  IF d = UP THEN "^" ELSE IF d = DOWN THEN "v" ELSE IF d = LEFT THEN "<" ELSE ">"

\* Direction.add
add(x, direction) == <<x[1] + direction[1], x[2] + direction[2]>>

(* ---- Board ---- *)
length == Cardinality(DOMAIN grid)
width == Cardinality(DOMAIN grid[0])

\* the coordinates of the board's squares
Squares == (0 .. length - 1) \X (0 .. width - 1)

\* marker standing for "the subscript raised IndexError"
IndexError == -1

\* Python list subscript: negative indices count from the back
PyIndex(len, i) ==
  IF i >= len \/ i < -len THEN IndexError
  ELSE IF i < 0 THEN i + len ELSE i

\* self.grid[coord[0]][coord[1]]
GridAt(coord) ==
  LET r == PyIndex(length, coord[1])
      c == PyIndex(width, coord[2])
  IN IF r = IndexError \/ c = IndexError THEN IndexError ELSE grid[r][c]

\* variant: only the upper limits are tested
inBounds_UpperOnly(coord) ==
  coord[1] < length /\ coord[2] < width

__inBounds__(coord) ==
  coord[1] < length /\ coord[1] >= 0 /\ coord[2] < width /\ coord[2] >= 0

canMoveTo(coord) ==
  IF __inBounds__(coord) THEN GridAt(coord) # 0 ELSE FALSE

\* canMoveTo propagates an IndexError iff the subscript is evaluated and fails
canMoveToRaises(coord) ==
  IF __inBounds__(coord) THEN GridAt(coord) = IndexError ELSE FALSE

(* ---- dictionaries ---- *)
EmptyDict == [k \in {} |-> 0]
Put(dict, k, v) == [x \in DOMAIN dict \cup {k} |-> IF x = k THEN v ELSE dict[x]]

Init ==
  /\ \E M \in 1..MaxCells, N \in 1..MaxCells :
       /\ M * N <= MaxCells
       /\ grid \in [0..M-1 -> [0..N-1 -> Markers]]
       /\ end \in (-Slack .. M) \X (-Slack .. N)
  /\ pc = "new"
  /\ err = ""
  /\ valueFn = EmptyDict
  /\ frontier = <<>>
  /\ visited = {}
  /\ enq = EmptyDict
  /\ policy = EmptyDict
  /\ start = <<>>
  /\ cur = <<>>
  /\ result = <<>>
  /\ ret = [none |-> TRUE, str |-> <<>>]

\* Maze.__init__ up to the first statement of __genValFn__
MazeInit ==
  /\ pc = "new"
  /\ IF GridAt(end) = IndexError
       THEN /\ pc' = "failed" /\ err' = "IndexError"
            /\ UNCHANGED <<valueFn, frontier, enq>>
     ELSE IF GridAt(end) = 0
       THEN /\ pc' = "failed" /\ err' = "ValueError"
            /\ UNCHANGED <<valueFn, frontier, enq>>
     ELSE /\ pc' = "genValFn" /\ err' = ""
          /\ valueFn' = Put(EmptyDict, end, -1)
          /\ frontier' = <<end>>
          /\ enq' = Put(EmptyDict, end, 1)
  /\ UNCHANGED <<grid, end, visited, policy, start, cur, result, ret>>

(* ---- __genValFn__ ---- *)

\* variant: frontier.pop(), which takes the newest item
popright(q) == [item |-> q[Len(q)], rest |-> SubSeq(q, 1, Len(q) - 1)]

\* frontier.popleft(): the item removed and the deque that remains
popleft(q) == [item |-> Head(q), rest |-> Tail(q)]

\* variant: the test is "neighbor not in self.valueFn"
UpdateNeighbor_CheckValued(s, coord, d) ==
  LET neighbor == add(coord, d)
  IN IF neighbor \notin DOMAIN s.valueFn /\ canMoveTo(neighbor)
       THEN [s EXCEPT !.valueFn = Put(s.valueFn, neighbor, s.valueFn[coord] - 1),
                      !.frontier = Append(s.frontier, neighbor),
                      !.enq = Put(s.enq, neighbor,
                                  IF neighbor \in DOMAIN s.enq
                                    THEN s.enq[neighbor] + 1 ELSE 1)]
       ELSE s

\* variant: the visited test guards the append only, not the assignment
UpdateNeighbor_AssignAlways(s, coord, d) ==
  LET neighbor == add(coord, d)
  IN IF canMoveTo(neighbor)
       THEN IF neighbor \notin s.visited
              THEN [s EXCEPT !.valueFn = Put(s.valueFn, neighbor, s.valueFn[coord] - 1),
                             !.frontier = Append(s.frontier, neighbor),
                             !.enq = Put(s.enq, neighbor,
                                         IF neighbor \in DOMAIN s.enq
                                           THEN s.enq[neighbor] + 1 ELSE 1)]
              ELSE [s EXCEPT !.valueFn = Put(s.valueFn, neighbor, s.valueFn[coord] - 1)]
       ELSE s

\* body of "for d in DIRECTIONS" for one direction; s holds the locals
\* valueFn, frontier, visited (and the history counter enq)
UpdateNeighbor(s, coord, d) ==
  LET neighbor == add(coord, d)
  IN IF neighbor \notin s.visited /\ canMoveTo(neighbor)
       THEN [s EXCEPT !.valueFn = Put(s.valueFn, neighbor, s.valueFn[coord] - 1),
                      !.frontier = Append(s.frontier, neighbor),
                      !.enq = Put(s.enq, neighbor,
                                  IF neighbor \in DOMAIN s.enq
                                    THEN s.enq[neighbor] + 1 ELSE 1)]
       ELSE s

RECURSIVE UpdateNeighbors(_, _, _)
\* the for loop over DIRECTIONS, from index i on
UpdateNeighbors(s, coord, i) ==
  IF i > Len(DIRECTIONS) THEN s
  ELSE UpdateNeighbors(UpdateNeighbor(s, coord, DIRECTIONS[i]), coord, i + 1)

\* one iteration of "while len(frontier) > 0"
GenValFnStep ==
  /\ pc = "genValFn"
  /\ Len(frontier) > 0
  /\ LET p == popleft(frontier)
         coord == p.item
         s0 == [valueFn |-> valueFn, frontier |-> p.rest,
                visited |-> visited \cup {coord}, enq |-> enq]
         s1 == UpdateNeighbors(s0, coord, 1)
     IN /\ valueFn' = s1.valueFn
        /\ frontier' = s1.frontier
        /\ visited' = s1.visited
        /\ enq' = s1.enq
  /\ UNCHANGED <<grid, end, pc, err, policy, start, cur, result, ret>>

\* the while loop exits; __init__ goes on to __genPolicy__
GenValFnDone ==
  /\ pc = "genValFn"
  /\ Len(frontier) = 0
  /\ pc' = "genPolicy"
  /\ UNCHANGED <<grid, end, err, valueFn, frontier, visited, enq, policy,
                 start, cur, result, ret>>

(* ---- __genPolicy__ ---- *)

\* variant: >= in place of >
Better_OrEqual(v, minv) == v >= minv

\* the comparison that decides whether a neighbour replaces the best so far
Better(v, minv) == v > minv

\* variant: minv is not updated
Take_KeepMinv(acc, v, d) == [minv |-> acc.minv, has |-> TRUE, d |-> d]

\* the two assignments under the comparison: minv and self.policy[coord]
Take(acc, v, d) == [minv |-> v, has |-> TRUE, d |-> d]

RECURSIVE PolicyScan(_, _, _, _)
\* the inner for loop for one coord, from direction index i on;
\* acc = [minv, has, d]: best value so far and the policy entry written, if any
PolicyScan(vf, coord, i, acc) ==
  IF i > Len(DIRECTIONS) THEN acc
  ELSE LET d == DIRECTIONS[i]
           neighbor == add(coord, d)
       IN IF neighbor \in DOMAIN vf /\ Better(vf[neighbor], acc.minv)
            THEN PolicyScan(vf, coord, i + 1, Take(acc, vf[neighbor], d))
            ELSE PolicyScan(vf, coord, i + 1, acc)

PolicyEntry(vf, coord) ==
  PolicyScan(vf, coord, 1, [minv |-> -maxint - 1, has |-> FALSE, d |-> UP])

\* the dictionary built by __genPolicy__ from a value function
genPolicy(vf) ==
  [coord \in {c \in DOMAIN vf : PolicyEntry(vf, c).has} |-> PolicyEntry(vf, coord).d]

GenPolicy ==
  /\ pc = "genPolicy"
  /\ policy' = genPolicy(valueFn)
  /\ pc' = "ready"
  /\ UNCHANGED <<grid, end, err, valueFn, frontier, visited, enq,
                 start, cur, result, ret>>

(* ---- solvePath ---- *)

RECURSIVE Join(_)
\* ' '.join(result), as a sequence of one-character strings
Join(syms) ==
  IF Len(syms) = 0 THEN <<>>
  ELSE IF Len(syms) = 1 THEN <<syms[1]>>
  ELSE <<syms[1], " ">> \o Join(Tail(syms))

\* the walk always ends within this many steps on the boards explored; the
\* guard only keeps the state space finite
MaxWalk == MaxCells + 2

\* solvePath(start) up to the first evaluation of the loop condition
SolveCall ==
  /\ pc = "ready"
  /\ \E st \in Squares \cup {end, <<-1, 0>>, <<length - 1, width>>} :
       /\ start' = st
       /\ IF st \notin DOMAIN policy
            THEN /\ ret' = [none |-> TRUE, str |-> <<>>]
                 /\ pc' = "ready"
                 /\ UNCHANGED <<cur, result>>
            ELSE /\ result' = <<>>
                 /\ cur' = st
                 /\ pc' = "solving"
                 /\ UNCHANGED ret
  /\ UNCHANGED <<grid, end, err, valueFn, frontier, visited, enq, policy>>

\* one iteration of "while cur != self.end and cur in self.policy"
SolveStep ==
  /\ pc = "solving"
  /\ cur # end /\ cur \in DOMAIN policy
  /\ Len(result) < MaxWalk
  /\ result' = Append(result, PRINT_MAP(policy[cur]))
  /\ cur' = add(cur, policy[cur])
  /\ UNCHANGED <<grid, end, pc, err, valueFn, frontier, visited, enq, policy,
                 start, ret>>

\* the loop exits: return ' '.join(result)
SolveReturn ==
  /\ pc = "solving"
  /\ ~(cur # end /\ cur \in DOMAIN policy)
  /\ ret' = [none |-> FALSE, str |-> Join(result)]
  /\ pc' = "ready"
  /\ UNCHANGED <<grid, end, err, valueFn, frontier, visited, enq, policy,
                 start, cur, result>>

(***************************************************************************)
(* Reference notions the properties are stated with: the 4-connected graph *)
(* of valid squares, hop distance and shortest-path counts.  None of them  *)
(* uses the frontier, the visited set or canMoveTo.                        *)
(***************************************************************************)
Passable(c) == c \in Squares /\ grid[c[1]][c[2]] # 0
\* the end square is a node even when it lies outside the board
Nodes == {c \in Squares : Passable(c)} \cup {end}
Abs(i) == IF i < 0 THEN -i ELSE i
Adjacent(a, b) == Abs(a[1] - b[1]) + Abs(a[2] - b[2]) = 1
Nbrs(c) == {n \in Nodes : Adjacent(n, c)}

RECURSIVE Layers(_, _, _)
\* dist: distances found so far; layer: the nodes at distance k
Layers(dist, layer, k) ==
  LET next == {n \in Nodes \ DOMAIN dist : \E m \in layer : Adjacent(n, m)}
  IN IF next = {} THEN dist
     ELSE Layers([c \in DOMAIN dist \cup next |->
                    IF c \in next THEN k + 1 ELSE dist[c]], next, k + 1)

\* hop distance from the end square, for exactly the nodes connected to it
DistMap == Layers([c \in {end} |-> 0], {end}, 0)

RECURSIVE SumOver(_, _)
SumOver(f, S) ==
  IF S = {} THEN 0
  ELSE LET x == CHOOSE y \in S : TRUE IN f[x] + SumOver(f, S \ {x})

RECURSIVE PathCounts(_, _, _)
\* cnt: number of shortest paths from the end square, for distances < k
PathCounts(dm, cnt, k) ==
  LET layer == {c \in DOMAIN dm : dm[c] = k}
  IN IF layer = {} THEN cnt
     ELSE PathCounts(dm,
            [c \in DOMAIN cnt \cup layer |->
               IF c \in layer
                 THEN SumOver(cnt, {n \in DOMAIN cnt : Adjacent(n, c) /\ dm[n] = k - 1})
                 ELSE cnt[c]],
            k + 1)

NumShortestPaths == PathCounts(DistMap, [c \in {end} |-> 1], 1)

Constructed == pc \in {"ready", "solving"}
ValFnDone == pc \in {"genPolicy", "ready", "solving"}

(* ---- C1 ---- *)
\* C1: with an in-bounds valid end square, the finished value function is
\* defined on exactly the squares connected to the end square, and
\* value(square) = -1 - (hop distance to the end square); value(end) = -1.
C1_ValueIsDistance ==
  (ValFnDone /\ Passable(end)) =>
    /\ DOMAIN valueFn = DOMAIN DistMap
    /\ \A c \in DOMAIN valueFn : valueFn[c] = -1 - DistMap[c]
    /\ valueFn[end] = -1

\* a finished maze with a square two hops away, a square reached around a
\* corner and a valid square that is cut off from the end square
C1_Witness ==
  /\ pc = "ready" /\ Passable(end)
  /\ \E c \in DOMAIN valueFn : valueFn[c] = -4
  /\ \E c \in Squares : Passable(c) /\ c \notin DOMAIN valueFn

(* ---- C2 ---- *)
\* C2: solvePath from a reachable square other than the end square moves one
\* hop closer to the end square with every symbol it emits, stops on the end
\* square, and has then emitted exactly -value(start) - 1 symbols.
C2_WalkReachesEnd ==
  /\ (pc = "solving" /\ start # end) =>
       /\ start \in DOMAIN valueFn /\ cur \in DOMAIN valueFn
       /\ Len(result) = valueFn[cur] - valueFn[start]
  /\ (pc = "ready" /\ start # <<>> /\ start # end /\ ~ret.none) =>
       /\ cur = end
       /\ Len(result) = -valueFn[start] - 1
       /\ ret.str = Join(result)
       /\ Len(ret.str) = 2 * Len(result) - 1

\* a returned walk of three symbols that turns a corner
C2_Witness ==
  /\ pc = "ready" /\ start # <<>> /\ start # end /\ ~ret.none
  /\ Len(result) = 3 /\ cur = end
  /\ result[1] # result[2]

(* ---- C3 ---- *)
\* C3: on a maze built with a valid end square, solvePath(end) returns the
\* empty sequence, never None.
C3_Claim ==
  (pc = "ready" /\ Passable(end) /\ start = end) => (~ret.none /\ ret.str = <<>>)

(* ---- C4 ---- *)
\* C4: Maze construction fails whenever canMoveTo(end) is false.
C4_Claim ==
  (pc # "new" /\ ~canMoveTo(end)) => pc = "failed"

(* ---- C5 ---- *)
\* C5: canMoveTo(coord) is true iff coord lies on the board and its marker is
\* not 0, and it raises no error, for coordinates inside and around the board.
C5_CanMoveTo ==
  \A coord \in (-Slack - 1 .. length + Slack) \X (-Slack - 1 .. width + Slack) :
    /\ ~canMoveToRaises(coord)
    /\ canMoveTo(coord) <=> Passable(coord)

\* the value function was built next to the top or left edge of a board
\* whose wrapped-around subscript would have found a valid square
C5_Witness ==
  /\ pc = "ready"
  /\ \E c \in visited, i \in 1..Len(DIRECTIONS) :
       LET n == add(c, DIRECTIONS[i])
       IN /\ n[1] < 0 \/ n[2] < 0
          /\ GridAt(n) \notin {0, IndexError}
          /\ ~canMoveTo(n)
          /\ n \notin DOMAIN valueFn

(* ---- C6 ---- *)
\* C6: on a maze built with a valid end square, the policy has an entry for
\* exactly the squares that have a value, the end square included.
C6_Claim ==
  (Constructed /\ Passable(end)) => DOMAIN policy = DOMAIN valueFn

(* ---- C7 ---- *)
\* C7 as stated: each square enters the frontier at most once.
C7_Claim ==
  \A c \in DOMAIN enq : enq[c] <= 1

\* C7 (amended): a square enters the frontier once for every shortest path
\* from the end square to it - never more, and exactly that often once the
\* loop has finished; only the end square and squares with a unique shortest
\* path enter once.
C7_EnqueuedOncePerShortestPath ==
  LET nsp == NumShortestPaths
  IN /\ \A c \in DOMAIN enq : c \in DOMAIN nsp /\ enq[c] <= nsp[c]
     /\ ValFnDone => enq = nsp

\* a square that entered the frontier three times, more often than it has
\* neighbours closer to the end square
C7_Witness ==
  /\ ValFnDone
  /\ \E c \in DOMAIN enq :
       /\ enq[c] = 3
       /\ Cardinality({n \in Nbrs(c) \cap DOMAIN valueFn :
                         valueFn[n] = valueFn[c] + 1}) = 2

(* ---- C8 ---- *)
\* the breadth-first search that checks and marks at enqueue time: a square
\* that already has a value is neither assigned nor appended again
TightNeighbor(s, coord, d) ==
  LET neighbor == add(coord, d)
  IN IF neighbor \notin s.visited /\ canMoveTo(neighbor)
       THEN [valueFn |-> Put(s.valueFn, neighbor, s.valueFn[coord] - 1),
             frontier |-> Append(s.frontier, neighbor),
             visited |-> s.visited \cup {neighbor}]
       ELSE s

RECURSIVE TightNeighbors(_, _, _)
TightNeighbors(s, coord, i) ==
  IF i > Len(DIRECTIONS) THEN s
  ELSE TightNeighbors(TightNeighbor(s, coord, DIRECTIONS[i]), coord, i + 1)

RECURSIVE TightRun(_)
TightRun(s) ==
  IF Len(s.frontier) = 0 THEN s.valueFn
  ELSE TightRun(TightNeighbors([s EXCEPT !.frontier = Tail(s.frontier)],
                               Head(s.frontier), 1))

TightValueFn ==
  TightRun([valueFn |-> Put(EmptyDict, end, -1), frontier |-> <<end>>,
            visited |-> {end}])

\* C8: the finished value function equals the one the tightened search
\* (check and mark at enqueue time) computes for the same board and end square.
C8_SameAsTightened ==
  ValFnDone => valueFn = TightValueFn

\* the source search did enqueue a square more than once
C8_Witness ==
  /\ ValFnDone /\ Passable(end)
  /\ \E c \in DOMAIN enq : enq[c] >= 2
  /\ valueFn = TightValueFn

(* ---- C9 ---- *)
DirectionOrder == << <<-1, 0>>, <<1, 0>>, <<0, -1>>, <<0, 1>> >>

C10_Terminates ==
  /\ <>(pc # "new" /\ pc # "genValFn")
  /\ [][\A c \in visited :
          /\ c \in DOMAIN valueFn /\ valueFn'[c] = valueFn[c]
          /\ enq'[c] = enq[c]]_vars

\* the loop has finished on a board where a square sat in the frontier twice
C10_Witness ==
  /\ pc = "genPolicy" /\ Len(frontier) = 0
  /\ \E c \in visited : enq[c] >= 2

Next ==
  \/ MazeInit
  \/ GenValFnStep
  \/ GenValFnDone
  \/ GenPolicy
  \/ SolveCall
  \/ SolveStep
  \/ SolveReturn

Spec == Init /\ [][Next]_vars

\* construction alone; the interpreter runs every statement to completion
NextInit == MazeInit \/ GenValFnStep \/ GenValFnDone \/ GenPolicy
InitSpec == Init /\ [][NextInit]_vars /\ WF_vars(NextInit)
====
